---- MODULE Spec2Model ----
(***************************************************************************)
(* NotePy (src/main.py): the persisted preference record (AppState,        *)
(* load_state, save_state), the recent-files list kept by MainWindow and   *)
(* the per-tab document state (DocumentTab: path, modified flag, text).    *)
(*                                                                         *)
(* Python values are dynamically typed, so every value that comes out of   *)
(* the settings file is modelled as a tagged record of one shape:          *)
(*   [t |-> type name, b |-> bool payload, n |-> int payload,              *)
(*    s |-> str payload, items |-> list payload]                           *)
(* JSON values in the settings file use the same shape with JSON's own     *)
(* tags ("true", "false", "number", "string", "array", "null");            *)
(* json.loads / json.dumps convert between the two.                        *)
(* File-system paths are strings; all modelled paths are absolute and the  *)
(* modelled file system has no symbolic links.                             *)
(***************************************************************************)
EXTENDS Integers, Sequences, FiniteSets, TLC

VARIABLES settings, state, tabs, current, files, lastOp, phase, env

vars == <<settings, state, tabs, current, files, lastOp, phase, env>>

(***************************************************************************)
(* Bounds of the model.                                                    *)
(***************************************************************************)
MaxTabs == 2

\* Tabs open at once in the runs where writes of the settings file can fail.
MaxPrefsTabs == 1

(***************************************************************************)
(* Program constants.                                                      *)
(***************************************************************************)
MaxRecent == 10

(***************************************************************************)
(* Python values.                                                          *)
(***************************************************************************)
PyBool(b) == [t |-> "bool", b |-> b, n |-> 0, s |-> "", items |-> <<>>]

PyInt(n) == [t |-> "int", b |-> FALSE, n |-> n, s |-> "", items |-> <<>>]

PyStr(s) == [t |-> "str", b |-> FALSE, n |-> 0, s |-> s, items |-> <<>>]

PyNone == [t |-> "NoneType", b |-> FALSE, n |-> 0, s |-> "", items |-> <<>>]

PyList(items) == [t |-> "list", b |-> FALSE, n |-> 0, s |-> "", items |-> items]

(***************************************************************************)
(* JSON values as they stand in the settings file.                         *)
(***************************************************************************)
JTrue == [t |-> "true", b |-> FALSE, n |-> 0, s |-> "", items |-> <<>>]

JFalse == [t |-> "false", b |-> FALSE, n |-> 0, s |-> "", items |-> <<>>]

JNull == [t |-> "null", b |-> FALSE, n |-> 0, s |-> "", items |-> <<>>]

JNumber(n) == [t |-> "number", b |-> FALSE, n |-> n, s |-> "", items |-> <<>>]

JString(s) == [t |-> "string", b |-> FALSE, n |-> 0, s |-> s, items |-> <<>>]

JArray(items) == [t |-> "array", b |-> FALSE, n |-> 0, s |-> "", items |-> items]

\* json.loads on one scalar JSON value.
JsonToPyScalar(j) ==
    CASE j.t = "true" -> PyBool(TRUE)
      [] j.t = "false" -> PyBool(FALSE)
      [] j.t = "number" -> PyInt(j.n)
      [] j.t = "string" -> PyStr(j.s)
      [] OTHER -> PyNone

\* json.loads on one JSON value (arrays hold scalars in this model).
JsonToPy(j) ==
    IF j.t = "array"
    THEN PyList([i \in 1..Len(j.items) |-> JsonToPyScalar(j.items[i])])
    ELSE JsonToPyScalar(j)

\* json.dumps on one scalar Python value.
PyToJsonScalar(v) ==
    CASE v.t = "bool" -> (IF v.b THEN JTrue ELSE JFalse)
      [] v.t = "int" -> JNumber(v.n)
      [] v.t = "str" -> JString(v.s)
      [] OTHER -> JNull

\* json.dumps on one Python value.
PyToJson(v) ==
    IF v.t = "list"
    THEN JArray([i \in 1..Len(v.items) |-> PyToJsonScalar(v.items[i])])
    ELSE PyToJsonScalar(v)

(***************************************************************************)
(* The settings file: absent, unreadable, or text that is empty, not JSON, *)
(* a JSON document that is not an object, or a JSON object given as its    *)
(* members in file order.                                                  *)
(***************************************************************************)
Member(k, v) == [k |-> k, v |-> v]

FileMissing == [kind |-> "missing", members |-> <<>>]

FileEmpty == [kind |-> "empty", members |-> <<>>]

FileInvalid == [kind |-> "invalid", members |-> <<>>]

FileUnreadable == [kind |-> "unreadable", members |-> <<>>]

FileNonObject == [kind |-> "nonobject", members |-> <<>>]

FileObject(members) == [kind |-> "object", members |-> members]

(***************************************************************************)
(* AppState                                                                *)
(***************************************************************************)
FieldNames == {"recent_files", "word_wrap", "font_family", "font_size"}

defaults ==
    [recent_files |-> PyList(<<>>),
     word_wrap |-> PyBool(TRUE),
     font_family |-> PyStr("Segoe UI"),
     font_size |-> PyInt(12)]

\* hasattr(s, k) for the keys the model draws from.
HasAttr(k) == k \in FieldNames

\* The loop of load_state: setattr for every member that names an attribute.
RECURSIVE SetAttrs(_, _)
SetAttrs(s, members) ==
    IF members = <<>> THEN s
    ELSE LET m == Head(members)
             s1 == IF HasAttr(m.k) THEN [s EXCEPT ![m.k] = JsonToPy(m.v)] ELSE s
         IN SetAttrs(s1, Tail(members))

\* [p for p in xs if isinstance(p, str)]
RECURSIVE OnlyStr(_)
OnlyStr(xs) ==
    IF xs = <<>> THEN <<>>
    ELSE IF Head(xs).t = "str" THEN <<Head(xs)>> \o OnlyStr(Tail(xs))
         ELSE OnlyStr(Tail(xs))

\* What the try block of load_state raises on this file, "" when nothing:
\* read_text on an unreadable file, json.loads on text that is not JSON,
\* data.items() on a document that is not an object.
LoadRaises(file) ==
    CASE file.kind = "unreadable" -> "OSError"
      [] file.kind \in {"empty", "invalid"} -> "JSONDecodeError"
      [] file.kind = "nonobject" -> "AttributeError"
      [] OTHER -> ""

\* A handler that lets only OSError through to "pass".
Caught_OSErrorOnly(exc) == exc = "OSError"

\* except Exception: every exception the try block can raise is caught.
Caught(exc) == TRUE

\* load_state: the record it returns, and the exception that leaves it ("" when
\* none; the record is then not delivered).
load_state(file) ==
    IF file.kind = "missing" THEN [raised |-> "", state |-> defaults]
    ELSE IF LoadRaises(file) # ""
         THEN [raised |-> IF Caught(LoadRaises(file)) THEN "" ELSE LoadRaises(file),
               state |-> defaults]
         ELSE LET s == SetAttrs(defaults, file.members)
                  rf == IF s.recent_files.t = "list" THEN s.recent_files.items ELSE <<>>
              IN [raised |-> "",
                  state |-> [s EXCEPT !.recent_files = PyList(OnlyStr(rf))]]

\* A dump that leaves font_size out.
DumpState_NoFontSize(s) ==
    FileObject(<<Member("recent_files", PyToJson(s.recent_files)),
                 Member("word_wrap", PyToJson(s.word_wrap)),
                 Member("font_family", PyToJson(s.font_family))>>)

\* json.dumps(state.__dict__): the four attributes in declaration order.
DumpState(s) ==
    FileObject(<<Member("recent_files", PyToJson(s.recent_files)),
                 Member("word_wrap", PyToJson(s.word_wrap)),
                 Member("font_family", PyToJson(s.font_family)),
                 Member("font_size", PyToJson(s.font_size))>>)

\* What a whole-file write_text can do: land, or fail and leave the file as
\* it was.
WriteOutcomes == {"ok", "denied"}

\* save_state: the write lands, or fails and the failure is swallowed.
save_state(file, s, w) == IF w = "ok" THEN DumpState(s) ELSE file

(***************************************************************************)
(* Paths                                                                   *)
(***************************************************************************)
\* The components of a path, split at "/".
RECURSIVE SplitPath(_, _, _)
SplitPath(s, cur, acc) ==
    IF s = "" THEN (IF cur = "" THEN acc ELSE Append(acc, cur))
    ELSE IF Head(s) = "/"
         THEN SplitPath(Tail(s), "", IF cur = "" THEN acc ELSE Append(acc, cur))
         ELSE SplitPath(Tail(s), cur \o Head(s), acc)

\* Collapse "." and ".." components.
RECURSIVE Collapse(_, _)
Collapse(parts, acc) ==
    IF parts = <<>> THEN acc
    ELSE LET c == Head(parts)
         IN IF c = "." THEN Collapse(Tail(parts), acc)
            ELSE IF c = ".."
                 THEN Collapse(Tail(parts),
                               IF acc = <<>> THEN acc ELSE SubSeq(acc, 1, Len(acc) - 1))
                 ELSE Collapse(Tail(parts), Append(acc, c))

RECURSIVE JoinPath(_)
JoinPath(parts) ==
    IF parts = <<>> THEN "" ELSE "/" \o Head(parts) \o JoinPath(Tail(parts))

\* str(Path(path).resolve()) on an absolute path.
resolve(path) ==
    LET parts == Collapse(SplitPath(path, "", <<>>), <<>>)
    IN IF parts = <<>> THEN "/" ELSE JoinPath(parts)

\* The paths the model's inputs name, with resolve worked out once for each.
KnownPaths ==
    {"/x/y/./report.txt", "/x/y/report.txt", "/gone.txt", "/x/note.txt", "/r/./10",
     "/r/0", "/r/1", "/r/2", "/r/3", "/r/4", "/r/5", "/r/6", "/r/7", "/r/8", "/r/9",
     "/r/10"}

Resolved == [p \in KnownPaths |-> resolve(p)]

Resolve(path) == IF path \in KnownPaths THEN Resolved[path] ELSE resolve(path)

\* os.path.basename: what follows the last "/".
RECURSIVE BasenameFrom(_, _)
BasenameFrom(s, cur) ==
    IF s = "" THEN cur
    ELSE IF Head(s) = "/" THEN BasenameFrom(Tail(s), "")
         ELSE BasenameFrom(Tail(s), cur \o Head(s))

basename(path) == BasenameFrom(path, "")

(***************************************************************************)
(* DocumentTab                                                             *)
(***************************************************************************)
\* self.path = None.  The code never stores the empty string as a path.
NoPath == ""

\* The dirty marker: a space and the bullet U+2022, spelled in ASCII here.
DirtySuffix == " <U+2022>"

\* DocumentTab.__init__: no path, unmodified empty document.
NewDocumentTab == [path |-> NoPath, dirty |-> FALSE, text |-> ""]

is_dirty(tab) == tab.dirty

\* A title that shows the whole path.
title_FullPath(tab) ==
    LET name == IF tab.path # NoPath THEN tab.path ELSE "Untitled"
    IN name \o (IF tab.dirty THEN DirtySuffix ELSE "")

title(tab) ==
    LET name == IF tab.path # NoPath THEN basename(tab.path) ELSE "Untitled"
    IN name \o (IF is_dirty(tab) THEN DirtySuffix ELSE "")

\* DocumentTab.load_file after read_text returned text.
load_file(tab, path, text) == [path |-> path, dirty |-> FALSE, text |-> text]

\* A save_to that forgets setModified(False).
save_to_KeepDirty(tab, path) == [tab EXCEPT !.path = path]

\* DocumentTab.save_to after write_text returned.
save_to(tab, path) == [tab EXCEPT !.path = path, !.dirty = FALSE]

\* A keystroke in the editor: the text changes and the document is modified.
edit(tab, text) == [tab EXCEPT !.text = text, !.dirty = TRUE]

(***************************************************************************)
(* Inputs of the model.                                                    *)
(***************************************************************************)
\* What a file dialog can return: a path that is not in resolved form.
DialogPaths == {"/x/y/./report.txt"}

\* What the user can type.
Texts == {"", "hello"}

\* The documents of the file system, by resolved path.
FsPaths == {"/x/y/report.txt"}

NoFile == [exists |-> FALSE, text |-> ""]

InitialFiles ==
    [p \in FsPaths |-> IF p = "/x/y/report.txt"
                        THEN [exists |-> TRUE, text |-> "hello"]
                        ELSE NoFile]

\* The settings file a run of the editor starts from: a record written by an
\* earlier session, naming a document that is gone and one that exists.
SettingsFiles ==
    { FileObject(<<Member("recent_files",
                          JArray(<<JString("/gone.txt"), JString("/x/y/report.txt")>>)),
                   Member("word_wrap", JFalse),
                   Member("font_family", JString("Mono")),
                   Member("font_size", JNumber(14)),
                   Member("theme", JString("dark"))>>) }

\* Eleven document names, for recent-files lists longer than the limit.
RecentNames ==
    <<"/r/0", "/r/1", "/r/2", "/r/3", "/r/4", "/r/5", "/r/6", "/r/7", "/r/8", "/r/9",
      "/r/10">>

JStrings(names) == [i \in 1..Len(names) |-> JString(names[i])]

\* What the settings file can hold for each key: nothing, or one member.
RecentFilesMembers ==
    { <<>>,
      <<Member("recent_files", JArray(<<>>))>>,
      <<Member("recent_files", JArray(<<JString("/x/y/report.txt"), JString("/gone.txt")>>))>>,
      <<Member("recent_files", JArray(<<JString("/x/note.txt"), JNumber(7),
                                       JString("/x/note.txt")>>))>>,
      <<Member("recent_files", JArray(JStrings(RecentNames)))>>,
      <<Member("recent_files", JString("/x/note.txt"))>>,
      <<Member("recent_files", JNull)>> }

WordWrapMembers ==
    { <<>>,
      <<Member("word_wrap", JTrue)>>,
      <<Member("word_wrap", JFalse)>>,
      <<Member("word_wrap", JString("yes"))>>,
      <<Member("word_wrap", JNumber(0))>> }

FontFamilyMembers ==
    { <<>>,
      <<Member("font_family", JString("Mono"))>>,
      <<Member("font_family", JNumber(3))>> }

FontSizeMembers ==
    { <<>>,
      <<Member("font_size", JNumber(14))>>,
      <<Member("font_size", JString("big"))>>,
      <<Member("font_size", JNull)>> }

UnknownMembers == { <<>>, <<Member("theme", JString("dark"))>> }

\* Every settings file load_state is tried on.
LoadFiles ==
    {FileMissing, FileEmpty, FileInvalid, FileUnreadable, FileNonObject}
    \cup { FileObject(r \o ww \o ff \o fs \o u) :
             r \in RecentFilesMembers, ww \in WordWrapMembers, ff \in FontFamilyMembers,
             fs \in FontSizeMembers, u \in UnknownMembers }

\* The settings files the recent-files list is exercised from: a full list, a
\* list with a repeated entry, and no file.
RecentSettingsFiles ==
    { FileMissing,
      FileObject(<<Member("recent_files", JArray(JStrings(SubSeq(RecentNames, 1, 10))))>>),
      FileObject(<<Member("recent_files", JArray(<<JString("/x/note.txt"), JNumber(7),
                                                  JString("/x/note.txt")>>))>>) }

\* The paths recorded on those lists: the first and the last entry of the full
\* list, the repeated entry, and a new path that is not in resolved form.
RecentInputs == {"/r/0", "/r/9", "/x/note.txt", "/r/./10"}

\* Path(path).exists()
Exists(fs, path) ==
    LET r == Resolve(path) IN r \in DOMAIN fs /\ fs[r].exists

(***************************************************************************)
(* MainWindow: recent files                                                *)
(***************************************************************************)
\* list.remove: drops the first occurrence.
RECURSIVE RemoveFirst(_, _)
RemoveFirst(xs, x) ==
    IF xs = <<>> THEN <<>>
    ELSE IF Head(xs) = x THEN Tail(xs)
         ELSE <<Head(xs)>> \o RemoveFirst(Tail(xs), x)

Contains(xs, x) == \E i \in 1..Len(xs) : xs[i] = x

\* xs[:n]
Take(xs, n) == SubSeq(xs, 1, IF Len(xs) < n THEN Len(xs) ELSE n)

\* The list manipulation of _add_recent.
add_recent_list(xs, path) ==
    LET p == PyStr(Resolve(path))
        removed == IF Contains(xs, p) THEN RemoveFirst(xs, p) ELSE xs
    IN Take(<<p>> \o removed, MaxRecent)

\* [p for p in xs if p != path]
RECURSIVE Without(_, _)
Without(xs, x) ==
    IF xs = <<>> THEN <<>>
    ELSE IF Head(xs) = x THEN Without(Tail(xs), x)
         ELSE <<Head(xs)>> \o Without(Tail(xs), x)

(***************************************************************************)
(* The part of the application a handler works on, and what it reports:    *)
(* io is the outcome of the last document read or write it attempted, on   *)
(* tab iotab with path path; notice is the message box it showed; raised   *)
(* says that an exception left the handler; saved is the outcome of the    *)
(* last write of the settings file it made.  env is the environment of the *)
(* run: the outcomes a write of the settings file can have in it.          *)
(***************************************************************************)
World(t, c, f, st, se, e) ==
    [tabs |-> t, current |-> c, files |-> f, state |-> st, settings |-> se,
     env |-> e, io |-> "none", iotab |-> 0, path |-> NoPath, notice |-> "none",
     raised |-> FALSE, saved |-> "none"]

Now == World(tabs, current, files, state, settings, env)

\* An _add_recent that saves the record before it updates the list.
_add_recent_SaveFirst(w, path, sw) ==
    LET st == [w.state EXCEPT !.recent_files =
                   PyList(add_recent_list(w.state.recent_files.items, path))]
    IN [w EXCEPT !.state = st, !.settings = save_state(w.settings, w.state, sw),
                 !.saved = sw]

\* _add_recent: the list is updated and the record is saved.
_add_recent(w, path, sw) ==
    LET st == [w.state EXCEPT !.recent_files =
                   PyList(add_recent_list(w.state.recent_files.items, path))]
    IN [w EXCEPT !.state = st, !.settings = save_state(w.settings, st, sw),
                 !.saved = sw]

\* What write_text leaves of the file at a resolved path.
WriteFile(fs, r, text, dw) ==
    IF dw = "ok" THEN [fs EXCEPT ![r] = [exists |-> TRUE, text |-> text]] ELSE fs

\* A save that assigns the path before it writes the file.
TrySave_PathFirst(w, i, path) ==
    LET r == Resolve(path)
    IN { [w |-> LET saved == [w EXCEPT !.tabs[i] = save_to(w.tabs[i], path),
                                        !.files = WriteFile(w.files, r, w.tabs[i].text, "ok"),
                                        !.io = "ok", !.iotab = i, !.path = path]
                IN _add_recent(saved, path, sw),
          ok |-> TRUE] : sw \in w.env.settings_writes }
       \cup
       { [w |-> [w EXCEPT !.tabs[i].path = path,
                          !.files = WriteFile(w.files, r, w.tabs[i].text, dw),
                          !.io = "failed", !.iotab = i, !.path = path,
                          !.notice = "critical"],
          ok |-> FALSE] : dw \in WriteOutcomes \ {"ok"} }

\* try: tab.save_to(path); self._add_recent(path)
\* except Exception: QMessageBox.critical(...)
\* The set of worlds it can leave, each with the flag the try block yields.
TrySave(w, i, path) ==
    LET r == Resolve(path)
    IN { [w |-> LET saved == [w EXCEPT !.tabs[i] = save_to(w.tabs[i], path),
                                        !.files = WriteFile(w.files, r, w.tabs[i].text, "ok"),
                                        !.io = "ok", !.iotab = i, !.path = path]
                IN _add_recent(saved, path, sw),
          ok |-> TRUE] : sw \in w.env.settings_writes }
       \cup
       { [w |-> [w EXCEPT !.files = WriteFile(w.files, r, w.tabs[i].text, dw),
                          !.io = "failed", !.iotab = i, !.path = path,
                          !.notice = "critical"],
          ok |-> FALSE] : dw \in WriteOutcomes \ {"ok"} }

\* _save_tab: save to the tab's path, or ask for one (NoPath: dialog cancelled).
_save_tab(w, i) ==
    IF w.tabs[i].path # NoPath
    THEN TrySave(w, i, w.tabs[i].path)
    ELSE {[w |-> w, ok |-> FALSE]}
         \cup UNION { TrySave(w, i, p) : p \in DialogPaths }

(***************************************************************************)
(* MainWindow: handlers, as functions from the world to the worlds the     *)
(* handler can leave.                                                      *)
(***************************************************************************)
new_tab(w) ==
    [w EXCEPT !.tabs = Append(w.tabs, NewDocumentTab), !.current = Len(w.tabs) + 1]

\* QTabWidget.removeTab, with the current index Qt selects afterwards.
RemoveTab(w, index) ==
    LET n == Len(w.tabs)
        rest == SubSeq(w.tabs, 1, index - 1) \o SubSeq(w.tabs, index + 1, n)
        cur == IF index < w.current THEN w.current - 1
               ELSE IF w.current > n - 1 THEN n - 1 ELSE w.current
    IN [w EXCEPT !.tabs = rest, !.current = cur]

\* The first tab whose path is the given one, 0 when there is none.
TabWithPath(ts, path) ==
    IF \E i \in 1..Len(ts) : ts[i].path = path
    THEN CHOOSE i \in 1..Len(ts) :
             ts[i].path = path /\ \A j \in 1..(i - 1) : ts[j].path # path
    ELSE 0

\* Path(path).read_text can succeed only on a file that exists.
ReadOutcomes(fs, path) == IF Exists(fs, path) THEN {"ok", "failed"} ELSE {"failed"}

open_file(w, path) ==
    IF TabWithPath(w.tabs, path) # 0
    THEN {[w EXCEPT !.current = TabWithPath(w.tabs, path)]}
    ELSE LET w1 == new_tab(w)
             i == w1.current
             w2 == [w1 EXCEPT !.iotab = i, !.path = path]
         IN UNION { IF rd = "ok"
                    THEN { _add_recent(
                             [w2 EXCEPT !.tabs[i] = load_file(w2.tabs[i], path,
                                                             w2.files[Resolve(path)].text),
                                        !.io = "ok"],
                             path, sw) : sw \in w.env.settings_writes }
                    ELSE { [w2 EXCEPT !.io = "failed", !.notice = "critical"] }
                  : rd \in ReadOutcomes(w.files, path) }

\* save_current_as: the dialog returns a path, or nothing (cancelled).
save_current_as(w) ==
    {w} \cup { o.w : o \in UNION { TrySave(w, w.current, p) : p \in DialogPaths } }

save_current(w) ==
    IF w.tabs[w.current].path # NoPath
    THEN { o.w : o \in TrySave(w, w.current, w.tabs[w.current].path) }
    ELSE save_current_as(w)

\* A close_tab that does not look at what _save_tab returned.
close_tab_RemovesAnyway(w, index) ==
    IF is_dirty(w.tabs[index])
    THEN { [w |-> w, resps |-> <<"Cancel">>, removed |-> FALSE],
           [w |-> RemoveTab(w, index), resps |-> <<"No">>, removed |-> TRUE] }
         \cup { [w |-> RemoveTab(o.w, index), resps |-> <<"Yes">>, removed |-> TRUE]
                : o \in _save_tab(w, index) }
    ELSE { [w |-> RemoveTab(w, index), resps |-> <<>>, removed |-> TRUE] }

\* close_tab: the worlds it can leave, with the answer given to the prompt
\* (if any) and whether the tab was removed.
close_tab(w, index) ==
    IF is_dirty(w.tabs[index])
    THEN { [w |-> w, resps |-> <<"Cancel">>, removed |-> FALSE],
           [w |-> RemoveTab(w, index), resps |-> <<"No">>, removed |-> TRUE] }
         \cup { [w |-> IF o.ok THEN RemoveTab(o.w, index) ELSE o.w,
                 resps |-> <<"Yes">>, removed |-> o.ok] : o \in _save_tab(w, index) }
    ELSE { [w |-> RemoveTab(w, index), resps |-> <<>>, removed |-> TRUE] }

_open_recent(w, path) ==
    IF ~Exists(w.files, path)
    THEN { LET st == [w.state EXCEPT !.recent_files =
                         PyList(Without(w.state.recent_files.items, PyStr(path)))]
           IN [w EXCEPT !.state = st, !.settings = save_state(w.settings, st, sw),
                        !.saved = sw,
                        !.notice = "warning"] : sw \in w.env.settings_writes }
    ELSE LET w1 == new_tab(w)
             i == w1.current
             w2 == [w1 EXCEPT !.iotab = i, !.path = path]
         IN { IF rd = "ok"
              THEN [w2 EXCEPT !.tabs[i] = load_file(w2.tabs[i], path,
                                                    w2.files[Resolve(path)].text),
                              !.io = "ok"]
              ELSE [w2 EXCEPT !.io = "failed", !.raised = TRUE]
            : rd \in ReadOutcomes(w.files, path) }

_clear_recent(w) ==
    { LET st == [w.state EXCEPT !.recent_files = PyList(<<>>)]
      IN [w EXCEPT !.state = st, !.settings = save_state(w.settings, st, sw),
                 !.saved = sw]
      : sw \in w.env.settings_writes }

\* closeEvent from tab i on, resps being the answers given so far.
RECURSIVE closeEvent(_, _, _)
closeEvent(w, i, resps) ==
    IF i > Len(w.tabs)
    THEN { [w |-> [w EXCEPT !.settings = save_state(w.settings, w.state, sw),
                            !.saved = sw],
            resps |-> resps, event |-> "accepted"] : sw \in w.env.settings_writes }
    ELSE IF ~is_dirty(w.tabs[i]) THEN closeEvent(w, i + 1, resps)
    ELSE LET w1 == [w EXCEPT !.current = i]
         IN { [w |-> w1, resps |-> Append(resps, "Cancel"), event |-> "ignored"] }
            \cup closeEvent(w1, i + 1, Append(resps, "No"))
            \cup UNION { IF o.ok
                         THEN closeEvent(o.w, i + 1, Append(resps, "Yes"))
                         ELSE { [w |-> o.w, resps |-> Append(resps, "Yes"),
                                 event |-> "ignored"] }
                       : o \in _save_tab(w1, i) }

(***************************************************************************)
(* The application as a state machine.                                     *)
(***************************************************************************)
NoOp ==
    [op |-> "none", arg |-> 0, tab |-> 0, path |-> NoPath, io |-> "none",
     notice |-> "none", raised |-> FALSE, saved |-> "none", resps |-> <<>>,
     event |-> "none",
     removed |-> FALSE]

\* The handler op, called on tab arg, leaves world w.
Apply(w, op, arg, resps, event, removed) ==
    /\ tabs' = w.tabs
    /\ current' = w.current
    /\ files' = w.files
    /\ state' = w.state
    /\ settings' = w.settings
    /\ lastOp' = [op |-> op, arg |-> arg, tab |-> w.iotab, path |-> w.path,
                  io |-> w.io, notice |-> w.notice, raised |-> w.raised,
                  saved |-> w.saved,
                  resps |-> resps, event |-> event, removed |-> removed]
    /\ phase' = IF event = "accepted" THEN "closed" ELSE phase
    /\ env' = env

\* MainWindow.__init__ has run: the record is loaded, no tab is open.  In the
\* runs of Spec the settings file stays writable.
Init ==
    /\ settings \in SettingsFiles
    /\ state = load_state(settings).state
    /\ tabs = <<>>
    /\ current = 0
    /\ files = InitialFiles
    /\ lastOp = NoOp
    /\ phase = "running"
    /\ env = [settings_writes |-> {"ok"}]

\* on_start_new_file; on_start_open_folder ends in the same new_tab call.
NewFile ==
    /\ phase = "running"
    /\ Len(tabs) < MaxTabs
    /\ Apply(new_tab(Now), "new_tab", 0, <<>>, "none", FALSE)

\* The user types in the current tab (undo and redo are left to the widget).
Edit ==
    /\ phase = "running"
    /\ current >= 1
    /\ \E t \in Texts \ {tabs[current].text} :
           Apply([Now EXCEPT !.tabs[current] = edit(tabs[current], t)],
                 "edit", current, <<>>, "none", FALSE)

OpenFile ==
    /\ phase = "running"
    /\ \E p \in DialogPaths :
           /\ TabWithPath(tabs, p) # 0 \/ Len(tabs) < MaxTabs
           /\ \E w \in open_file(Now, p) :
                  Apply(w, "open_file", 0, <<>>, "none", FALSE)

SaveCurrent ==
    /\ phase = "running"
    /\ current >= 1
    /\ \E w \in save_current(Now) :
           Apply(w, "save_current", current, <<>>, "none", FALSE)

SaveCurrentAs ==
    /\ phase = "running"
    /\ current >= 1
    /\ \E w \in save_current_as(Now) :
           Apply(w, "save_current_as", current, <<>>, "none", FALSE)

CloseTab ==
    /\ phase = "running"
    /\ \E index \in 1..Len(tabs) :
           \E o \in close_tab(Now, index) :
               Apply(o.w, "close_tab", index, o.resps, "none", o.removed)

OpenRecent ==
    /\ phase = "running"
    /\ \E k \in 1..Len(state.recent_files.items) :
           LET path == state.recent_files.items[k].s
           IN /\ ~Exists(files, path) \/ Len(tabs) < MaxTabs
              /\ \E w \in _open_recent(Now, path) :
                     Apply(w, "_open_recent", 0, <<>>, "none", FALSE)

ClearRecent ==
    /\ phase = "running"
    /\ state.recent_files.items # <<>>
    /\ \E w \in _clear_recent(Now) :
           Apply(w, "_clear_recent", 0, <<>>, "none", FALSE)

CloseEvent ==
    /\ phase = "running"
    /\ \E o \in closeEvent(Now, 1, <<>>) :
           Apply(o.w, "closeEvent", 0, o.resps, o.event, FALSE)

Next ==
    \/ NewFile
    \/ Edit
    \/ OpenFile
    \/ SaveCurrent
    \/ SaveCurrentAs
    \/ CloseTab
    \/ OpenRecent
    \/ ClearRecent
    \/ CloseEvent

Spec == Init /\ [][Next]_vars

(***************************************************************************)
(* load_state on its own: the application starts on any settings file.     *)
(***************************************************************************)
InitLoad ==
    /\ settings \in LoadFiles
    /\ state = defaults
    /\ tabs = <<>>
    /\ current = 0
    /\ files = InitialFiles
    /\ lastOp = NoOp
    /\ phase = "start"
    /\ env = [settings_writes |-> {"ok"}]

\* self.state = load_state()
LoadState ==
    /\ phase = "start"
    /\ state' = load_state(settings).state
    /\ lastOp' = [NoOp EXCEPT !.op = "load_state",
                              !.raised = load_state(settings).raised # ""]
    /\ phase' = "running"
    /\ UNCHANGED <<settings, tabs, current, files, env>>

NextLoad == LoadState

SpecLoad == InitLoad /\ [][NextLoad]_vars

(***************************************************************************)
(* _add_recent on its own: paths are recorded on a loaded list.            *)
(***************************************************************************)
InitRecent ==
    /\ settings \in RecentSettingsFiles
    /\ state = load_state(settings).state
    /\ tabs = <<>>
    /\ current = 0
    /\ files = InitialFiles
    /\ lastOp = NoOp
    /\ phase = "running"
    /\ env = [settings_writes |-> {"ok"}]

RecordRecent ==
    /\ phase = "running"
    /\ \E p \in RecentInputs : \E sw \in env.settings_writes :
           Apply(_add_recent([Now EXCEPT !.path = p], p, sw),
                 "_add_recent", 0, <<>>, "none", FALSE)

NextRecent == RecordRecent

SpecRecent == InitRecent /\ [][NextRecent]_vars

(***************************************************************************)
(* The editor in runs where a write of the settings file can fail (the     *)
(* failure is swallowed by save_state).                                    *)
(***************************************************************************)
InitPrefs ==
    /\ settings \in SettingsFiles
    /\ state = load_state(settings).state
    /\ tabs = <<>>
    /\ current = 0
    /\ files = InitialFiles
    /\ lastOp = NoOp
    /\ phase = "running"
    /\ env = [settings_writes |-> WriteOutcomes]

\* The handlers that open a tab, held to the tab bound of these runs.
PrefsNewFile == NewFile /\ Len(tabs') <= MaxPrefsTabs

PrefsOpenFile == OpenFile /\ Len(tabs') <= MaxPrefsTabs

PrefsOpenRecent == OpenRecent /\ Len(tabs') <= MaxPrefsTabs

NextPrefs ==
    \/ PrefsNewFile
    \/ Edit
    \/ PrefsOpenFile
    \/ SaveCurrent
    \/ SaveCurrentAs
    \/ CloseTab
    \/ PrefsOpenRecent
    \/ ClearRecent
    \/ CloseEvent

SpecPrefs == InitPrefs /\ [][NextPrefs]_vars

(***************************************************************************)
(* save_state and load_state in turn: a valid record is written over some  *)
(* settings file and read back by the next start of the application.       *)
(***************************************************************************)
PyStrings(names) == [i \in 1..Len(names) |-> PyStr(names[i])]

\* Valid records: a list of strings, a boolean, a string, a positive integer.
ValidRecords ==
    { [recent_files |-> PyList(PyStrings(r)), word_wrap |-> PyBool(ww),
       font_family |-> PyStr(ff), font_size |-> PyInt(fs)] :
        r \in { <<>>, <<"/x/y/report.txt">>, <<"/gone.txt", "/x/y/report.txt">>,
                <<"/x/note.txt", "/x/note.txt">> },
        ww \in BOOLEAN, ff \in {"Segoe UI", "Mono"}, fs \in {1, 12, 14} }

\* What the settings file holds before the record is saved.
RoundTripFiles ==
    { FileMissing, FileInvalid,
      FileObject(<<Member("recent_files", JArray(<<JString("/old.txt")>>)),
                   Member("font_size", JNumber(9)),
                   Member("theme", JString("dark"))>>) }

InitRoundTrip ==
    /\ settings \in RoundTripFiles
    /\ state \in ValidRecords
    /\ tabs = <<>>
    /\ current = 0
    /\ files = InitialFiles
    /\ lastOp = NoOp
    /\ phase = "saving"
    /\ env = [settings_writes |-> WriteOutcomes]

\* save_state(self.state), the last thing a session does.
SaveState ==
    /\ phase = "saving"
    /\ \E sw \in env.settings_writes :
           /\ settings' = save_state(settings, state, sw)
           /\ lastOp' = [NoOp EXCEPT !.op = "save_state", !.saved = sw]
    /\ phase' = "start"
    /\ UNCHANGED <<state, tabs, current, files, env>>

NextRoundTrip ==
    \/ SaveState
    \/ LoadState

SpecRoundTrip == InitRoundTrip /\ [][NextRoundTrip]_vars

TypeOK ==
    /\ phase \in {"saving", "start", "running", "closed"}
    /\ current \in 0..Len(tabs)
    /\ Len(tabs) <= MaxTabs

(***************************************************************************)
(* Properties                                                              *)
(***************************************************************************)
RecentItems == state.recent_files.items

NoDuplicates(xs) == \A i, j \in 1..Len(xs) : i # j => xs[i] # xs[j]

\* C1: in every reachable state recent_files has at most 10 entries, no
\* duplicate entries and only strings, whatever the settings file held.
C1_RecentFilesInvariant ==
    /\ state.recent_files.t = "list"
    /\ Len(RecentItems) <= 10
    /\ NoDuplicates(RecentItems)
    /\ \A i \in 1..Len(RecentItems) : RecentItems[i].t = "str"

\* The JSON type the record's field k is meant to have.
WellTyped(k, v) ==
    CASE k = "recent_files" -> v.t = "array"
      [] k = "word_wrap" -> v.t \in {"true", "false"}
      [] k = "font_family" -> v.t = "string"
      [] k = "font_size" -> v.t = "number"
      [] OTHER -> FALSE

\* C5: load_state on a record with a wrong-typed field returns the default for
\* that field only; every correctly-typed scalar field keeps its persisted
\* value.
C5_WrongTypedFieldDefaults ==
    (lastOp.op = "load_state" /\ settings.kind = "object") =>
        \A i \in 1..Len(settings.members) :
            LET m == settings.members[i]
            IN /\ (m.k \in FieldNames /\ ~WellTyped(m.k, m.v)) =>
                      state[m.k] = defaults[m.k]
               /\ (m.k \in FieldNames \ {"recent_files"} /\ WellTyped(m.k, m.v)) =>
                      state[m.k] = JsonToPy(m.v)

\* C6: load_state on a missing, empty or syntactically invalid settings file
\* returns exactly the default record and lets no failure out.
C6_UnusableFileGivesDefaults ==
    (lastOp.op = "load_state" /\ settings.kind \in {"missing", "empty", "invalid"}) =>
        /\ ~lastOp.raised
        /\ state.recent_files = PyList(<<>>)
        /\ state.word_wrap = PyBool(TRUE)
        /\ state.font_family = PyStr("Segoe UI")
        /\ state.font_size = PyInt(12)

C6_Witness ==
    /\ lastOp.op = "load_state"
    /\ settings.kind = "invalid"
    /\ ~lastOp.raised
    /\ state.font_size = PyInt(12)

\* C7: recording p on a list L yields the normalized p, then the elements of L
\* other than p in their order, cut to the first 10 entries.
C7_RecordRecentFile ==
    [][lastOp'.op = "_add_recent" =>
          state'.recent_files.items =
              Take(<<PyStr(Resolve(lastOp'.path))>>
                       \o Without(RecentItems, PyStr(Resolve(lastOp'.path))), 10)]_vars

\* C8: after a successful open (open_file, Open Recent) or save (save, save
\* as, save on close) of a document its normalized path is first in
\* recent_files.
C8_OpenedOrSavedIsFirst ==
    (/\ lastOp.io = "ok"
     /\ lastOp.op \in {"open_file", "_open_recent", "save_current", "save_current_as",
                       "close_tab", "closeEvent"}) =>
        /\ RecentItems # <<>>
        /\ RecentItems[1] = PyStr(Resolve(lastOp.path))

\* C4: every failed read or write of a document is shown to the user in a
\* blocking message box, and no exception leaves the handler.
C4_FailureSurfaced ==
    lastOp.io = "failed" => (lastOp.notice = "critical" /\ ~lastOp.raised)

\* C2: a Cancel answer during closeEvent ignores the event and leaves every
\* tab, every file on disk and the recent-files list as they were when the
\* shutdown was requested.
C2_CancelAbortsShutdown ==
    [][(/\ lastOp'.op = "closeEvent"
        /\ lastOp'.resps # <<>>
        /\ lastOp'.resps[Len(lastOp'.resps)] = "Cancel") =>
           /\ lastOp'.event = "ignored"
           /\ tabs' = tabs
           /\ files' = files
           /\ state'.recent_files = state.recent_files]_vars

\* C3: a load_file or save_to that fails leaves the tab it was called on as it
\* was before the call: a load is called on the tab new_tab has just made, a
\* save on a tab that was open.
C3_FailedIoLeavesTab ==
    [][lastOp'.io = "failed" =>
          IF lastOp'.op \in {"open_file", "_open_recent"}
          THEN /\ lastOp'.tab = Len(tabs) + 1
               /\ Len(tabs') = Len(tabs) + 1
               /\ tabs'[lastOp'.tab] = [path |-> NoPath, dirty |-> FALSE, text |-> ""]
          ELSE /\ lastOp'.tab \in 1..Len(tabs)
               /\ Len(tabs') = Len(tabs)
               /\ tabs'[lastOp'.tab] = tabs[lastOp'.tab]]_vars

C3_Witness ==
    /\ lastOp.op = "save_current_as"
    /\ lastOp.io = "failed"
    /\ tabs[lastOp.tab].path = NoPath
    /\ tabs[lastOp.tab].dirty
    /\ tabs[lastOp.tab].text = "hello"

\* b is what is left of p when its directory components are stripped.
IsBaseName(b, p) ==
    /\ \A j \in 1..Len(b) : SubSeq(b, j, j) # "/"
    /\ \E k \in 0..Len(p) :
           /\ SubSeq(p, k + 1, Len(p)) = b
           /\ k = 0 \/ SubSeq(p, k, k) = "/"

\* C9: title() is the base name of the path, or "Untitled" without a path,
\* followed by the dirty marker exactly when the tab is dirty.
C9_Title ==
    \A i \in 1..Len(tabs) :
        LET tb == tabs[i]
            t == title(tb)
            cut == IF tb.dirty THEN Len(t) - Len(DirtySuffix) ELSE Len(t)
            name == SubSeq(t, 1, cut)
        IN /\ cut >= 1
           /\ SubSeq(t, cut + 1, Len(t)) = (IF tb.dirty THEN DirtySuffix ELSE "")
           /\ IF tb.path = NoPath THEN name = "Untitled" ELSE IsBaseName(name, tb.path)
           /\ (tb.path = NoPath /\ ~tb.dirty) => t = "Untitled"
           /\ (tb.path = NoPath /\ tb.dirty) => t = "Untitled" \o DirtySuffix
           /\ (tb.path = "/x/y/report.txt" /\ ~tb.dirty) => t = "report.txt"

C9_Witness ==
    /\ lastOp.op = "save_current"
    /\ lastOp.io = "ok"
    /\ lastOp.path = "/x/y/report.txt"
    /\ tabs[lastOp.tab].path = "/x/y/report.txt"
    /\ title(tabs[lastOp.tab]) = "report.txt"

Persisted(file, s) ==
    /\ file.kind = "object"
    /\ Len(file.members) = 4
    /\ \A f \in FieldNames :
           \E i \in 1..Len(file.members) :
               file.members[i].k = f /\ JsonToPy(file.members[i].v) = s[f]

\* C11: every operation that changes recent_files writes the record, an
\* accepted closeEvent writes it too, and when the last write of an operation
\* succeeded the settings file holds the in-memory record.
C11_PersistedAfterMutation ==
    [][/\ state'.recent_files # state.recent_files => lastOp'.saved # "none"
       /\ lastOp'.event = "accepted" => lastOp'.saved # "none"
       /\ lastOp'.saved = "ok" =>
            /\ Persisted(settings', state')
            /\ load_state(settings').state = state']_vars

C11_Witness ==
    /\ lastOp.op = "_open_recent"
    /\ lastOp.notice = "warning"
    /\ lastOp.saved = "ok"
    /\ RecentItems = <<PyStr("/x/y/./report.txt")>> \/ RecentItems = <<PyStr("/x/y/report.txt")>>
    /\ Persisted(settings, state)

\* C12: a valid record that save_state wrote successfully is read back by
\* load_state equal in all four fields.
C12_RoundTrip ==
    [][(/\ lastOp.op = "save_state"
        /\ lastOp.saved = "ok"
        /\ lastOp'.op = "load_state") =>
           /\ ~lastOp'.raised
           /\ state'.recent_files = state.recent_files
           /\ state'.word_wrap = state.word_wrap
           /\ state'.font_family = state.font_family
           /\ state'.font_size = state.font_size]_vars

C12_Witness ==
    /\ lastOp.op = "load_state"
    /\ phase = "running"
    /\ Persisted(settings, state)
    /\ state.recent_files = PyList(<<PyStr("/gone.txt"), PyStr("/x/y/report.txt")>>)
    /\ state.word_wrap = PyBool(FALSE)
    /\ state.font_family = PyStr("Mono")
    /\ state.font_size = PyInt(14)

\* The indices of the dirty tabs from tab i on, in tab order.
RECURSIVE DirtyFrom(_, _)
DirtyFrom(ts, i) ==
    IF i > Len(ts) THEN <<>>
    ELSE (IF ts[i].dirty THEN <<i>> ELSE <<>>) \o DirtyFrom(ts, i + 1)

\* C13: close_tab removes a dirty tab, and closeEvent accepts over a dirty
\* tab, only after the answer No or after the answer Yes and a save that
\* succeeded; after Cancel, a cancelled Save As dialog or a failed save the
\* tab stays open with its text, path and dirty flag as they were.
C13_NoDirtyTabLostUnasked ==
    [][/\ (lastOp'.op = "close_tab" /\ tabs[lastOp'.arg].dirty) =>
            /\ Len(lastOp'.resps) = 1
            /\ lastOp'.removed =>
                   \/ lastOp'.resps = <<"No">>
                   \/ /\ lastOp'.resps = <<"Yes">>
                      /\ lastOp'.io = "ok"
                      /\ lastOp'.tab = lastOp'.arg
                      /\ files'[Resolve(lastOp'.path)] =
                             [exists |-> TRUE, text |-> tabs[lastOp'.arg].text]
            /\ (\/ lastOp'.resps = <<"Cancel">>
                \/ lastOp'.resps = <<"Yes">> /\ lastOp'.io # "ok") => ~lastOp'.removed
            /\ ~lastOp'.removed =>
                   /\ Len(tabs') = Len(tabs)
                   /\ tabs'[lastOp'.arg] = tabs[lastOp'.arg]
       /\ lastOp'.op = "closeEvent" =>
            LET d == DirtyFrom(tabs, 1)
                r == lastOp'.resps
            IN /\ Len(tabs') = Len(tabs)
               /\ Len(r) <= Len(d)
               /\ lastOp'.event = "accepted" =>
                      /\ Len(r) = Len(d)
                      /\ \A n \in 1..Len(r) :
                             \/ r[n] = "No" /\ tabs'[d[n]] = tabs[d[n]]
                             \/ /\ r[n] = "Yes"
                                /\ ~tabs'[d[n]].dirty
                                /\ tabs'[d[n]].path # NoPath
                                /\ tabs'[d[n]].text = tabs[d[n]].text
                                /\ files'[Resolve(tabs'[d[n]].path)].exists
               /\ lastOp'.event # "accepted" =>
                      /\ lastOp'.event = "ignored"
                      /\ Len(r) >= 1
                      /\ r[Len(r)] \in {"Cancel", "Yes"}
                      /\ tabs'[d[Len(r)]] = tabs[d[Len(r)]]]_vars

C13_Witness ==
    /\ lastOp.op = "close_tab"
    /\ lastOp.resps = <<"Yes">>
    /\ lastOp.io = "failed"
    /\ ~lastOp.removed
    /\ tabs[lastOp.arg].dirty
    /\ tabs[lastOp.arg].text = "hello"

====
